---------------------------- MODULE Spec2Model ----------------------------
(***************************************************************************)
(* A model of the three command-line programs of s3-utils:                 *)
(*                                                                         *)
(*   - the Selective Deleter  (W-ASAP Loculus/delete_by_file_ids.py),      *)
(*   - the Prefix Deleter     (delete_s3_files.py),                        *)
(*   - the Fetcher            (W-ASAP Loculus/fetch_file_ids.py).          *)
(*                                                                         *)
(* Each program is a sequential state machine of its own; the three        *)
(* specifications SpecSelective, SpecPrefix and SpecFetcher run one        *)
(* program each and leave the variables of the other two untouched.        *)
(* Python strings are TLA+ strings (\o is Python's +), except for the      *)
(* object keys of the Prefix Deleter, which are sequences of characters    *)
(* because the store orders them and matches them against a prefix.        *)
(***************************************************************************)
EXTENDS Integers, Sequences, FiniteSets, TLC

VARIABLES
    \* ---- Selective Deleter ----
    argv,             \* sys.argv[1:]
    pc,               \* position in main()
    positional,       \* parse_args: the positional arguments
    options,          \* parse_args: [dry_run, file_type]
    file_ids,         \* the loaded document, in document order
    files_to_delete,  \* the target list
    found,            \* <<n>>: the number printed at line 130
    confirmation,     \* the text read at the prompt
    prompts,          \* number of input() reads
    announced,        \* <<n>>: the total printed at line 147 (dry run) or 151 (warning)
    calls,            \* the keys of the s3.delete_object calls issued, in order
    deleted_count,
    error_count,
    summary,          \* the three numbers of the final summary
    exit_code,
    \* ---- Prefix Deleter ----
    p_pc,             \* position in the script
    p_prefix,         \* sys.argv[2]
    store0,           \* the store's keys when the program starts
    store,            \* the store's keys now
    token,            \* the paginator's continuation token
    truncated,        \* IsTruncated of the last list response
    page,             \* the objects of page['Contents'] not yet processed
    p_calls,          \* the keys of the s3.delete_object calls issued, in order
    p_deleted_count,
    p_rejected,       \* the keys whose delete the store rejected
    p_printed,        \* the count of the final print, or NotPrinted
    \* ---- Fetcher ----
    f_pc,             \* position in extract_file_ids
    records,          \* the parsed NDJSON records
    f_i,              \* number of records processed
    result,           \* the output mapping
    f_error           \* the exception extraction raised, or "none"

selVars == <<argv, pc, positional, options, file_ids, files_to_delete, found,
             confirmation, prompts, announced, calls, deleted_count,
             error_count, summary, exit_code>>
preVars == <<p_pc, p_prefix, store0, store, token, truncated, page, p_calls,
             p_deleted_count, p_rejected, p_printed>>
fetVars == <<f_pc, records, f_i, result, f_error>>
vars == <<selVars, preVars, fetVars>>

-----------------------------------------------------------------------------
(* Bounds *)

\* Most submissions in a document.
MaxSubs == 2

\* Most keys the store returns in one page of a listing.
MaxKeys == 2

\* Most records in a response.
MaxRecords == 2

\* Python's None (no command-line token is this string).
None == "<None>"

\* Nothing printed, nothing loaded yet.
Nothing == <<>>

NotPrinted == <<>>

\* The states of the programs that are not run.
InitSelectiveIdle ==
    /\ argv = <<>>
    /\ pc = "idle"
    /\ positional = <<>>
    /\ options = [dry_run |-> FALSE, file_type |-> None]
    /\ file_ids = Nothing
    /\ files_to_delete = <<>>
    /\ found = Nothing
    /\ confirmation = None
    /\ prompts = 0
    /\ announced = Nothing
    /\ calls = <<>>
    /\ deleted_count = 0
    /\ error_count = 0
    /\ summary = Nothing
    /\ exit_code = -1

InitPrefixIdle ==
    /\ p_pc = "idle"
    /\ p_prefix = <<>>
    /\ store0 = {}
    /\ store = {}
    /\ token = <<>>
    /\ truncated = FALSE
    /\ page = <<>>
    /\ p_calls = <<>>
    /\ p_deleted_count = 0
    /\ p_rejected = {}
    /\ p_printed = NotPrinted

InitFetcherIdle ==
    /\ f_pc = "idle"
    /\ records = <<>>
    /\ f_i = 0
    /\ result = <<>>
    /\ f_error = "none"

-----------------------------------------------------------------------------
(***************************************************************************)
(* Selective Deleter                                                       *)
(***************************************************************************)

\* The two category tags.
Tags == {"nucleotideAlignment", "siloReads"}

\* ---- inputs ----

Prefixes == {"", "data/"}

\* The seven positional arguments, the prefix third.
Base(prefix) == <<"ids.json", "bucket", prefix, "ak", "sk", "host", "eu">>

\* What follows the positional arguments on the command line.
OptionTails ==
    { <<>>,
      <<"--dry-run">>,
      <<"--type", "nucleotideAlignment">>,
      <<"--type", "siloReads">>,
      <<"--type", "">>,
      <<"--type", "bogus">>,
      <<"--type", "SiloReads">>,
      <<"--type">>,
      <<"--dry-run", "--type", "siloReads">>,
      <<"--type", "nucleotideAlignment", "--dry-run">>,
      <<"--dry-run", "--type", "">>,
      <<"--type", "--dry-run">>,
      <<"--type", "bogus", "--type", "siloReads">>,
      <<"extra">> }

\* Command lines: too few positionals, or seven and a tail; an option may
\* also come first.
Argvs ==
    { SubSeq(Base("data/"), 1, 6), <<"--dry-run">> \o Base("data/") }
    \cup { Base(p) \o t : p \in Prefixes, t \in OptionTails }

\* File identifier lists of a category.
IdLists == { <<>>, <<"a1">>, <<"a1", "b1">> }

\* A submission's value: either category may be missing from it.
IdsValues == UNION { [D -> IdLists] : D \in SUBSET Tags }

SubmissionIds == <<"S1", "S2", "S3", "S4">>

\* Documents: up to MaxSubs submissions with distinct identifiers, in
\* document order.
Docs ==
    UNION { { [i \in 1..n |-> [sid |-> SubmissionIds[i], ids |-> v[i]]] :
                v \in [1..n -> IdsValues] } : n \in 0..MaxSubs }

\* What the operator may type at the prompt.
Answers == {"DELETE", "delete", "DELETE ", "", "yes"}

\* ---- parse_args ----

RECURSIVE ParseLoop(_, _, _, _)
ParseLoop(av, i, pos, args) ==
    IF i > Len(av)
    THEN [exit |-> FALSE, positional |-> pos, args |-> args]
    ELSE IF av[i] = "--dry-run"
    THEN ParseLoop(av, i + 1, pos, [args EXCEPT !.dry_run = TRUE])
    ELSE IF av[i] = "--type"
    THEN IF i + 1 <= Len(av)
         THEN ParseLoop(av, i + 2, pos, [args EXCEPT !.file_type = av[i + 1]])
         ELSE [exit |-> TRUE, positional |-> pos, args |-> args]
    ELSE ParseLoop(av, i + 1, Append(pos, av[i]), args)

parse_args(av) ==
    ParseLoop(av, 1, <<>>, [dry_run |-> FALSE, file_type |-> None])

\* ---- collect_files_to_delete ----

\* Python truthiness of a string or None.
Truthy(s) == s # None /\ s # ""

\* ids.get(tag, [])
Get(ids, tag) == IF tag \in DOMAIN ids THEN ids[tag] ELSE <<>>

\* A variant of s3_key that joins the two with a separator.
s3_key_sep(prefix, file_id) == prefix \o "/" \o file_id

\* f"{prefix}{file_id}" if prefix else file_id
s3_key(prefix, file_id) ==
    IF Truthy(prefix) THEN prefix \o file_id ELSE file_id

\* A variant of TypeSelected that never excludes siloReads.
TypeSelected_all(file_type, tag) ==
    file_type = None \/ file_type = tag \/ tag = "siloReads"

\* file_type is None or file_type == tag
TypeSelected(file_type, tag) == file_type = None \/ file_type = tag

\* The inner loop over one category's list: one append per identifier.
RECURSIVE AppendCategory(_, _, _, _, _, _)
AppendCategory(files, sid, tag, lst, j, prefix) ==
    IF j > Len(lst) THEN files
    ELSE AppendCategory(Append(files, <<sid, tag, s3_key(prefix, lst[j])>>),
                        sid, tag, lst, j + 1, prefix)

\* The outer loop over file_ids.items().
RECURSIVE CollectLoop(_, _, _, _, _)
CollectLoop(files, doc, i, prefix, file_type) ==
    IF i > Len(doc) THEN files
    ELSE LET sid == doc[i].sid
             ids == doc[i].ids
             f1 == IF TypeSelected(file_type, "nucleotideAlignment")
                   THEN AppendCategory(files, sid, "nucleotideAlignment",
                                       Get(ids, "nucleotideAlignment"), 1, prefix)
                   ELSE files
             f2 == IF TypeSelected(file_type, "siloReads")
                   THEN AppendCategory(f1, sid, "siloReads",
                                       Get(ids, "siloReads"), 1, prefix)
                   ELSE f1
         IN CollectLoop(f2, doc, i + 1, prefix, file_type)

collect_files_to_delete(doc, prefix, file_type) ==
    CollectLoop(<<>>, doc, 1, prefix, file_type)

\* ---- main ----

InitSelective ==
    /\ argv \in Argvs
    /\ pc = "start"
    /\ positional = <<>>
    /\ options = [dry_run |-> FALSE, file_type |-> None]
    /\ file_ids = Nothing
    /\ files_to_delete = <<>>
    /\ found = Nothing
    /\ confirmation = None
    /\ prompts = 0
    /\ announced = Nothing
    /\ calls = <<>>
    /\ deleted_count = 0
    /\ error_count = 0
    /\ summary = Nothing
    /\ exit_code = -1          \* still running
    /\ InitPrefixIdle /\ InitFetcherIdle

\* sys.exit(code), a return from main (code 0), or an unhandled exception
\* (code 1).
Exit(code) == pc' = "exited" /\ exit_code' = code

\* Line 93: parse_args, which exits 1 on a --type without a value.
ParseArgs ==
    /\ pc = "start"
    /\ LET r == parse_args(argv)
       IN IF r.exit
          THEN Exit(1) /\ UNCHANGED <<positional, options>>
          ELSE /\ positional' = r.positional
               /\ options' = r.args
               /\ pc' = "usage"
               /\ UNCHANGED exit_code
    /\ UNCHANGED <<argv, file_ids, files_to_delete, confirmation, prompts,
                   announced, calls, deleted_count, error_count, summary>>
    /\ UNCHANGED <<found, preVars, fetVars>>

\* Lines 95-113: fewer than seven positional arguments end the program; the
\* seven are bound otherwise (the endpoint, given a scheme when it has none,
\* only configures the client and is not kept here).
CheckUsage ==
    /\ pc = "usage"
    /\ IF Len(positional) < 7
       THEN Exit(1)
       ELSE pc' = "validate" /\ UNCHANGED exit_code
    /\ UNCHANGED <<argv, positional, options, file_ids, files_to_delete,
                   confirmation, prompts, announced, calls, deleted_count,
                   error_count, summary>>
    /\ UNCHANGED <<found, preVars, fetVars>>

\* Line 119: file_type and file_type not in (...)
InvalidType(file_type) == Truthy(file_type) /\ file_type \notin Tags

\* Lines 118-121.
ValidateType ==
    /\ pc = "validate"
    /\ IF InvalidType(options.file_type)
       THEN Exit(1)
       ELSE pc' = "load" /\ UNCHANGED exit_code
    /\ UNCHANGED <<argv, positional, options, file_ids, files_to_delete,
                   confirmation, prompts, announced, calls, deleted_count,
                   error_count, summary>>
    /\ UNCHANGED <<found, preVars, fetVars>>

\* Lines 123-134: load the document (any document, or the read fails and the
\* exception ends the program), build the target list, return if it is
\* empty.
LoadAndCollect ==
    /\ pc = "load"
    /\ \/ \E doc \in Docs :
            LET files == collect_files_to_delete(doc, positional[3],
                                                 options.file_type)
            IN /\ file_ids' = doc
               /\ files_to_delete' = files
               /\ found' = <<Len(files)>>
               /\ IF files = <<>>
                  THEN Exit(0)
                  ELSE pc' = "preview" /\ UNCHANGED exit_code
       \/ Exit(1) /\ UNCHANGED <<file_ids, files_to_delete, found>>
    /\ UNCHANGED <<argv, positional, options, confirmation, prompts,
                   announced, calls, deleted_count, error_count, summary>>
    /\ UNCHANGED <<preVars, fetVars>>

\* A variant of PreviewAndDryRun that does not look at dry_run.
PreviewAndDryRun_ignored ==
    /\ pc = "preview"
    /\ announced' = <<Len(files_to_delete)>>
    /\ pc' = "prompt"
    /\ UNCHANGED <<argv, positional, options, file_ids, files_to_delete,
                   confirmation, prompts, calls, deleted_count, error_count,
                   summary, exit_code>>
    /\ UNCHANGED <<found, preVars, fetVars>>

\* Lines 136-151: the preview, then either the dry-run report and return, or
\* the warning that precedes the prompt.
PreviewAndDryRun ==
    /\ pc = "preview"
    /\ announced' = <<Len(files_to_delete)>>
    /\ IF options.dry_run
       THEN Exit(0)
       ELSE pc' = "prompt" /\ UNCHANGED exit_code
    /\ UNCHANGED <<argv, positional, options, file_ids, files_to_delete,
                   confirmation, prompts, calls, deleted_count, error_count,
                   summary>>
    /\ UNCHANGED <<found, preVars, fetVars>>

\* A variant of Confirmed that ignores case and trailing blanks.
Confirmed_loose(text) == text \in {"DELETE", "delete", "DELETE "}

\* Line 153: confirmation != "DELETE" aborts.
Confirmed(text) == text = "DELETE"

\* Lines 152-155: read the prompt; the read may also end in EOFError.
Prompt ==
    /\ pc = "prompt"
    /\ prompts' = prompts + 1
    /\ \/ \E text \in Answers :
            /\ confirmation' = text
            /\ IF Confirmed(text)
               THEN pc' = "delete" /\ UNCHANGED exit_code
               ELSE Exit(0)
       \/ Exit(1) /\ UNCHANGED confirmation
    /\ UNCHANGED <<argv, positional, options, file_ids, files_to_delete,
                   announced, calls, deleted_count, error_count, summary>>
    /\ UNCHANGED <<found, preVars, fetVars>>

\* A variant of DeleteOne in which the exception is not caught.
DeleteOne_abort ==
    /\ pc = "delete"
    /\ Len(calls) < Len(files_to_delete)
    /\ calls' = Append(calls, files_to_delete[Len(calls) + 1][3])
    /\ \/ deleted_count' = deleted_count + 1
          /\ UNCHANGED <<error_count, pc, exit_code>>
       \/ error_count' = error_count + 1
          /\ Exit(1) /\ UNCHANGED deleted_count
    /\ UNCHANGED <<argv, positional, options, file_ids, files_to_delete,
                   confirmation, prompts, announced, summary>>
    /\ UNCHANGED <<found, preVars, fetVars>>

\* Lines 170-177: one iteration of the delete loop; the call succeeds or
\* raises, and the exception is caught and counted.
DeleteOne ==
    /\ pc = "delete"
    /\ Len(calls) < Len(files_to_delete)
    /\ calls' = Append(calls, files_to_delete[Len(calls) + 1][3])
    /\ \/ deleted_count' = deleted_count + 1 /\ UNCHANGED error_count
       \/ error_count' = error_count + 1 /\ UNCHANGED deleted_count
    /\ UNCHANGED <<argv, pc, positional, options, file_ids, files_to_delete,
                   confirmation, prompts, announced, summary, exit_code>>
    /\ UNCHANGED <<found, preVars, fetVars>>

\* Lines 179-185: the loop is over; print the summary and return.
Summary ==
    /\ pc = "delete"
    /\ Len(calls) = Len(files_to_delete)
    /\ summary' = <<deleted_count, error_count, Len(files_to_delete)>>
    /\ Exit(0)
    /\ UNCHANGED <<argv, positional, options, file_ids, files_to_delete,
                   confirmation, prompts, announced, calls, deleted_count,
                   error_count>>
    /\ UNCHANGED <<found, preVars, fetVars>>

-----------------------------------------------------------------------------
(***************************************************************************)
(* Prefix Deleter                                                          *)
(***************************************************************************)

\* ---- keys: sequences of characters, ordered as the store orders them ----

CharCode == ("/" :> 47) @@ ("1" :> 49) @@ ("2" :> 50) @@ ("p" :> 112) @@ ("q" :> 113)

\* Lexicographic order of keys by character code.
RECURSIVE KeyLess(_, _)
KeyLess(a, b) ==
    IF b = <<>> THEN FALSE
    ELSE IF a = <<>> THEN TRUE
    ELSE IF CharCode[Head(a)] # CharCode[Head(b)]
    THEN CharCode[Head(a)] < CharCode[Head(b)]
    ELSE KeyLess(Tail(a), Tail(b))

\* key.startswith(prefix)
StartsWith(key, prefix) ==
    Len(prefix) <= Len(key) /\ SubSeq(key, 1, Len(prefix)) = prefix

\* ---- inputs ----

AllKeys == { <<"p", "/", "1">>, <<"p", "/", "2">>, <<"p", "q">>,
             <<"q", "/", "1">>, <<"p">> }

KeyPrefixes == { <<>>, <<"p">>, <<"p", "/">>, <<"q", "/">>, <<"2">> }

\* ---- the store's list_objects_v2 ----

RECURSIVE Sorted(_)
Sorted(S) ==
    IF S = {} THEN <<>>
    ELSE LET m == CHOOSE k \in S : \A o \in S \ {k} : KeyLess(k, o)
         IN <<m>> \o Sorted(S \ {m})

\* The store is S3's: a listing is in key order and its continuation token
\* stands for the last key returned.
\* The keys a list request can still return: those under the prefix that
\* follow the continuation token, in key order.
Listing(s, prefix, tok) ==
    Sorted({ k \in s : StartsWith(k, prefix) /\ (tok = <<>> \/ KeyLess(tok, k)) })

Min(a, b) == IF a < b THEN a ELSE b

InitPrefix ==
    /\ p_pc = "list"
    /\ p_prefix \in KeyPrefixes
    /\ store0 \in SUBSET AllKeys
    /\ store = store0
    /\ token = <<>>
    /\ truncated = FALSE
    /\ page = <<>>
    /\ p_calls = <<>>
    /\ p_deleted_count = 0
    /\ p_rejected = {}
    /\ p_printed = NotPrinted
    /\ InitSelectiveIdle /\ InitFetcherIdle

\* A variant of NextPageWanted that stops after the first page.
NextPageWanted_first(isTruncated) == FALSE

\* The paginator goes on while the last response was truncated.
NextPageWanted(isTruncated) == isTruncated

\* Lines 29-34 (the script is past its argument check of lines 10-12): the
\* paginator fetches the next page, of any size the store
\* chooses up to MaxKeys; the request may also fail, which ends the program.
FetchPage ==
    /\ p_pc = "list"
    /\ LET rest == Listing(store, p_prefix, token)
       IN \/ /\ rest = <<>>
             /\ page' = <<>>
             /\ truncated' = FALSE
             /\ p_pc' = "page"
             /\ UNCHANGED token
          \/ \E n \in 1..Min(MaxKeys, Len(rest)) :
                /\ page' = SubSeq(rest, 1, n)
                /\ token' = rest[n]
                /\ truncated' = (n < Len(rest))
                /\ p_pc' = "page"
          \/ /\ p_pc' = "crashed"
             /\ UNCHANGED <<page, token, truncated>>
    /\ UNCHANGED <<p_prefix, store0, store, p_calls, p_deleted_count,
                   p_rejected, p_printed>>
    /\ UNCHANGED <<selVars, fetVars>>

\* Lines 35-38: delete the next object of the page.  The store removes the
\* key, or rejects the call: the exception is not caught and ends the
\* program.
DeleteObject ==
    /\ p_pc = "page"
    /\ page # <<>>
    /\ p_calls' = Append(p_calls, Head(page))
    /\ \/ /\ store' = store \ {Head(page)}
          /\ p_deleted_count' = p_deleted_count + 1
          /\ page' = Tail(page)
          /\ UNCHANGED <<p_pc, p_rejected>>
       \/ /\ p_rejected' = p_rejected \cup {Head(page)}
          /\ p_pc' = "crashed"
          /\ UNCHANGED <<store, p_deleted_count, page>>
    /\ UNCHANGED <<p_prefix, store0, token, truncated, p_printed>>
    /\ UNCHANGED <<selVars, fetVars>>

\* Line 33: the page is done; go on to the next one if there is one.
PageDone ==
    /\ p_pc = "page"
    /\ page = <<>>
    /\ NextPageWanted(truncated)
    /\ p_pc' = "list"
    /\ UNCHANGED <<p_prefix, store0, store, token, truncated, page, p_calls,
                   p_deleted_count, p_rejected, p_printed>>
    /\ UNCHANGED <<selVars, fetVars>>

\* Line 40: no further page; print the count.
PrintCount ==
    /\ p_pc = "page"
    /\ page = <<>>
    /\ ~NextPageWanted(truncated)
    /\ p_printed' = <<p_deleted_count>>
    /\ p_pc' = "done"
    /\ UNCHANGED <<p_prefix, store0, store, token, truncated, page, p_calls,
                   p_deleted_count, p_rejected>>
    /\ UNCHANGED <<selVars, fetVars>>

-----------------------------------------------------------------------------
(***************************************************************************)
(* Fetcher                                                                 *)
(***************************************************************************)

\* ---- Python values, tagged with their type ----

PyNone == [t |-> "NoneType", v |-> 0]
PyStr(s) == [t |-> "str", v |-> s]
PyInt(n) == [t |-> "int", v |-> n]
PyList(items) == [t |-> "list", v |-> items]
\* A dict is a function from its keys; <<>> is the empty dict.
PyDict(f) == [t |-> "dict", v |-> f]

\* bool(x)
PyTruthy(x) ==
    CASE x.t = "NoneType" -> FALSE
      [] x.t = "str" -> x.v # ""
      [] x.t = "int" -> x.v # 0
      [] x.t = "list" -> x.v # <<>>
      [] x.t = "dict" -> DOMAIN x.v # {}

\* d.get(key) of a dict's function
DictGet(f, key) == IF key \in DOMAIN f THEN f[key] ELSE PyNone

\* ---- json.loads on the texts a field can hold ----

FileObj(id) == PyDict([fileId |-> PyStr(id), name |-> PyStr("n")])

TwoFilesText == "[{\"fileId\": \"a1\", \"name\": \"n\"}, {\"name\": \"n\"}, {\"fileId\": \"b1\", \"name\": \"n\"}]"

\* What json.loads raises on a text that is no JSON, in place of a value.
JSONDecodeError == [t |-> "JSONDecodeError", v |-> 0]

\* The parsed value, or JSONDecodeError.
JsonLoads(text) ==
    CASE text = "5" -> PyInt(5)
      [] text = "\"abc\"" -> PyStr("abc")
      [] text = "null" -> PyNone
      [] text = "{\"fileId\": \"a1\", \"name\": \"n\"}" -> FileObj("a1")
      [] text = "{}" -> PyDict(<<>>)
      [] text = "[]" -> PyList(<<>>)
      [] text = "[1]" -> PyList(<<PyInt(1)>>)
      [] text = "[{\"fileId\": \"a1\", \"name\": \"n\"}]" -> PyList(<<FileObj("a1")>>)
      [] text = TwoFilesText ->
            PyList(<<FileObj("a1"), PyDict([name |-> PyStr("n")]), FileObj("b1")>>)
      [] OTHER -> JSONDecodeError

\* ---- inputs ----

\* What metadata can hold in a file field: JSON texts, the empty string,
\* and a value that is no string.
FieldValues ==
    { PyStr(""), PyStr("not json"), PyStr("5"), PyStr("\"abc\""), PyStr("null"),
      PyStr("{\"fileId\": \"a1\", \"name\": \"n\"}"), PyStr("{}"), PyStr("[]"),
      PyStr("[1]"), PyStr("[{\"fileId\": \"a1\", \"name\": \"n\"}]"),
      PyStr(TwoFilesText), PyInt(5) }

OneFile == PyStr("[{\"fileId\": \"a1\", \"name\": \"n\"}]")

\* The two file fields of a metadata dict: neither, every value in
\* nucleotideAlignment alone, and some pairs and values of siloReads.
FileFields ==
    { <<>> }
    \cup { [nucleotideAlignment |-> x] : x \in FieldValues }
    \cup { [siloReads |-> x] : x \in { OneFile, PyStr("5"), PyStr("not json") } }
    \cup { [nucleotideAlignment |-> OneFile, siloReads |-> x] :
              x \in { PyStr(TwoFilesText), PyStr("[1]") } }

\* The submissionId of a metadata dict: absent, empty, or an identifier.
SubmissionFields ==
    { <<>> } \cup { [submissionId |-> PyStr(x)] : x \in {"", "S1", "S2"} }

Metadatas == { a @@ b : a \in SubmissionFields, b \in FileFields }

\* Parsed records: with a metadata dict, or without one.
Records == { [metadata |-> PyDict(m)] : m \in Metadatas } \cup { <<>> }

\* ---- parse_file_field ----

\* if not field_value: return []; json.loads raises TypeError on a value
\* that is no string and JSONDecodeError on a text that is no JSON; both
\* are caught.
parse_file_field(field_value) ==
    IF ~PyTruthy(field_value) THEN PyList(<<>>)
    ELSE IF field_value.t # "str" THEN PyList(<<>>)
    ELSE IF JsonLoads(field_value.v).t = "JSONDecodeError" THEN PyList(<<>>)
    ELSE JsonLoads(field_value.v)

\* ---- extract_file_ids ----

\* "for f in files": the items yielded, or the TypeError of a value that
\* cannot be iterated.  A list yields its items, a dict its keys, a string
\* its characters.
RECURSIVE KeysOf(_)
KeysOf(S) ==
    IF S = {} THEN <<>>
    ELSE LET k == CHOOSE x \in S : TRUE IN <<PyStr(k)>> \o KeysOf(S \ {k})

Iterate(files) ==
    CASE files.t = "list" -> [err |-> "none", items |-> files.v]
      [] files.t = "dict" -> [err |-> "none", items |-> KeysOf(DOMAIN files.v)]
      [] files.t = "str" ->
            [err |-> "none", items |-> [i \in 1..Len(files.v) |-> PyStr("c")]]
      [] OTHER -> [err |-> "TypeError", items |-> <<>>]

\* [f.get("fileId") for f in files if f.get("fileId")]: the list, or the
\* AttributeError of an item that is no dict and has no get.
RECURSIVE Comprehend(_, _, _)
Comprehend(items, j, out) ==
    IF j > Len(items) THEN [err |-> "none", ids |-> out]
    ELSE IF items[j].t # "dict" THEN [err |-> "AttributeError", ids |-> <<>>]
    ELSE IF PyTruthy(DictGet(items[j].v, "fileId"))
    THEN Comprehend(items, j + 1, Append(out, DictGet(items[j].v, "fileId")))
    ELSE Comprehend(items, j + 1, out)

FileIdsOf(files) ==
    IF Iterate(files).err # "none"
    THEN [err |-> Iterate(files).err, ids |-> <<>>]
    ELSE Comprehend(Iterate(files).items, 1, <<>>)

IsError(x) == x.err # "none"

\* record.get("metadata", {})
MetadataOf(record) ==
    IF "metadata" \in DOMAIN record THEN record.metadata.v ELSE <<>>

\* A variant of Skipped that skips only a missing submissionId.
Skipped_none(submission_id) == submission_id.t = "NoneType"

\* if not submission_id: continue
Skipped(submission_id) == ~PyTruthy(submission_id)

InitFetcher ==
    /\ f_pc = "loop"
    /\ records \in UNION { [1..n -> Records] : n \in 0..MaxRecords }
    /\ f_i = 0
    /\ result = <<>>
    /\ f_error = "none"
    /\ InitSelectiveIdle /\ InitPrefixIdle

\* Lines 63-77: one iteration of the loop over the records.  The two
\* comprehensions are evaluated in order, so an exception of the first one
\* is the one raised.
ExtractRecord ==
    /\ f_pc = "loop"
    /\ f_i < Len(records)
    /\ f_i' = f_i + 1
    /\ LET metadata == MetadataOf(records[f_i + 1])
           submission_id == DictGet(metadata, "submissionId")
           alignment_files == parse_file_field(DictGet(metadata, "nucleotideAlignment"))
           silo_files == parse_file_field(DictGet(metadata, "siloReads"))
           a == FileIdsOf(alignment_files)
           s == FileIdsOf(silo_files)
       IN IF Skipped(submission_id)
          THEN UNCHANGED <<f_pc, result, f_error>>
          ELSE IF IsError(a) \/ IsError(s)
          THEN /\ f_pc' = "raised"
               /\ f_error' = IF IsError(a) THEN a.err ELSE s.err
               /\ UNCHANGED result
          ELSE /\ result' = [k \in DOMAIN result \cup {submission_id.v} |->
                               IF k = submission_id.v
                               THEN [nucleotideAlignment |-> a.ids,
                                     siloReads |-> s.ids]
                               ELSE result[k]]
               /\ UNCHANGED <<f_pc, f_error>>
    /\ UNCHANGED records
    /\ UNCHANGED <<selVars, preVars>>

\* Line 79: return result.
Return ==
    /\ f_pc = "loop"
    /\ f_i = Len(records)
    /\ f_pc' = "returned"
    /\ UNCHANGED <<records, f_i, result, f_error>>
    /\ UNCHANGED <<selVars, preVars>>

-----------------------------------------------------------------------------
(***************************************************************************)
(* Specifications: one program each                                        *)
(***************************************************************************)

NextSelective ==
    \/ ParseArgs
    \/ CheckUsage
    \/ ValidateType
    \/ LoadAndCollect
    \/ PreviewAndDryRun
    \/ Prompt
    \/ DeleteOne
    \/ Summary

NextPrefix ==
    \/ FetchPage
    \/ DeleteObject
    \/ PageDone
    \/ PrintCount

NextFetcher ==
    \/ ExtractRecord
    \/ Return

SpecSelective == InitSelective /\ [][NextSelective]_vars

SpecPrefix == InitPrefix /\ [][NextPrefix]_vars

SpecFetcher == InitFetcher /\ [][NextFetcher]_vars

-----------------------------------------------------------------------------
(***************************************************************************)
(* Properties of the Selective Deleter (checked under SpecSelective)       *)
(***************************************************************************)

\* The categories a filter keeps, in the order the targets are built.
KeptCategories(file_type) ==
    SelectSeq(<<"nucleotideAlignment", "siloReads">>,
              LAMBDA t : file_type = None \/ file_type = t)

\* The identifiers a document lists for a submission and a category.
IdsOf(doc, i, tag) ==
    IF tag \in DOMAIN doc[i].ids THEN doc[i].ids[tag] ELSE <<>>

RECURSIVE SumOver(_, _)
SumOver(f, n) == IF n = 0 THEN 0 ELSE f[n] + SumOver(f, n - 1)

\* Occurrences of identifiers in the kept categories of one submission.
SubmissionCount(doc, i, file_type) ==
    LET cats == KeptCategories(file_type)
    IN SumOver([c \in 1..Len(cats) |-> Len(IdsOf(doc, i, cats[c]))], Len(cats))

\* Occurrences of identifiers in the kept categories of a document.
TargetCount(doc, file_type) ==
    SumOver([i \in 1..Len(doc) |-> SubmissionCount(doc, i, file_type)], Len(doc))

\* The target list has been built.
Collected == found # Nothing

\* C1: a dry run issues no store delete call and never reads the prompt,
\* and the total it reports is the number of targets of the input: the
\* number a real run on the same input announces before its prompt.
C1_DryRun ==
    /\ options.dry_run =>
          /\ calls = <<>>
          /\ prompts = 0
          /\ pc \notin {"prompt", "delete"}
          /\ (pc = "exited" /\ Collected /\ files_to_delete # <<>>) =>
                /\ exit_code = 0
                /\ announced = <<TargetCount(file_ids, options.file_type)>>
    /\ (~options.dry_run /\ pc = "prompt") =>
          announced = <<TargetCount(file_ids, options.file_type)>>

\* A dry run over several targets has reported its total and ended.
C1_Witness ==
    /\ options.dry_run
    /\ pc = "exited"
    /\ announced # Nothing
    /\ Len(files_to_delete) >= 2

\* C2: a text other than exactly DELETE at the prompt ends the program with
\* exit code 0 and without any store delete call; every store delete call
\* comes after a prompt answered with exactly DELETE.
C2_Gate ==
    /\ (confirmation # None /\ confirmation # "DELETE") =>
          /\ pc = "exited"
          /\ exit_code = 0
          /\ calls = <<>>
    /\ calls # <<>> => (prompts >= 1 /\ confirmation = "DELETE")

\* The prompt was answered with a near miss over a non-empty target list.
C2_Witness ==
    /\ confirmation \in {"delete", "DELETE "}
    /\ pc = "exited"
    /\ files_to_delete # <<>>
    /\ ~options.dry_run

\* C3: after confirmation one delete call is issued per target, in list
\* order; a failing call does not stop the remaining ones; the program ends
\* with the summary, in which successes + errors = total = the length of
\* the target list.
C3_Batch ==
    /\ Len(calls) <= Len(files_to_delete)
    /\ \A k \in 1..Len(calls) : calls[k] = files_to_delete[k][3]
    /\ deleted_count + error_count = Len(calls)
    /\ (confirmation = "DELETE" /\ pc = "exited") => summary # Nothing
    /\ summary # Nothing =>
          /\ Len(calls) = Len(files_to_delete)
          /\ summary = <<deleted_count, error_count, Len(files_to_delete)>>
          /\ summary[1] + summary[2] = summary[3]

\* Every call of a batch of several targets failed, and all were issued.
C3_Witness ==
    /\ summary # Nothing
    /\ Len(files_to_delete) >= 2
    /\ error_count = Len(files_to_delete)
    /\ Len(calls) = Len(files_to_delete)

\* C4: a --type value that is neither nucleotideAlignment nor siloReads
\* (the empty string included) makes the program exit with code 1: it
\* issues no store call, builds no target list and does not exit
\* successfully.
C4_TypeRejected ==
    (options.file_type # None /\ options.file_type \notin Tags) =>
        /\ pc \in {"usage", "validate"} \/ (pc = "exited" /\ exit_code = 1)
        /\ ~Collected
        /\ calls = <<>>

\* a is b with some elements left out.
RECURSIVE IsSubList(_, _)
IsSubList(a, b) ==
    IF a = <<>> THEN TRUE
    ELSE IF b = <<>> THEN FALSE
    ELSE IF Head(a) = Head(b) THEN IsSubList(Tail(a), Tail(b))
    ELSE IsSubList(a, Tail(b))

\* The list the same document and prefix give with no filter.
Unfiltered == collect_files_to_delete(file_ids, positional[3], None)

SomeIdIn(doc, tag) == \E i \in 1..Len(doc) : IdsOf(doc, i, tag) # <<>>

\* What holds of the list built with --type nucleotideAlignment whatever
\* the document.
FilteredList ==
    /\ IsSubList(files_to_delete, Unfiltered)
    /\ \A k \in 1..Len(files_to_delete) :
          files_to_delete[k][2] = "nucleotideAlignment"
    /\ (files_to_delete = <<>>) <=> ~SomeIdIn(file_ids, "nucleotideAlignment")

\* C9 as stated: the list built with --type nucleotideAlignment is a
\* strict subset of the unfiltered list, holds only nucleotideAlignment
\* targets, and is empty iff no submission has such an identifier.
C9_StrictSubset ==
    (Collected /\ options.file_type = "nucleotideAlignment") =>
        /\ FilteredList
        /\ Len(files_to_delete) < Len(Unfiltered)

\* C9 as amended: the list built with --type nucleotideAlignment is a
\* sub-list of the unfiltered list, strict exactly when some submission has
\* a siloReads identifier (equal to it otherwise); it holds only
\* nucleotideAlignment targets and is empty iff no submission has such an
\* identifier.
C9_SubList ==
    (Collected /\ options.file_type = "nucleotideAlignment") =>
        /\ FilteredList
        /\ Len(files_to_delete) <= Len(Unfiltered)
        /\ (Len(files_to_delete) < Len(Unfiltered))
              <=> SomeIdIn(file_ids, "siloReads")
        /\ ~SomeIdIn(file_ids, "siloReads") => files_to_delete = Unfiltered

\* A filtered list that is non-empty and strictly smaller than the
\* unfiltered one.
C9_Witness ==
    /\ Collected
    /\ options.file_type = "nucleotideAlignment"
    /\ files_to_delete # <<>>
    /\ Len(files_to_delete) < Len(Unfiltered)

\* Targets that precede those of submission i, category number c.
TargetsBefore(doc, i, c, file_type) ==
    LET cats == KeptCategories(file_type)
    IN SumOver([h \in 1..(i - 1) |-> SubmissionCount(doc, h, file_type)], i - 1)
       + SumOver([d \in 1..(c - 1) |-> Len(IdsOf(doc, i, cats[d]))], c - 1)

\* C10: the target list holds one target per occurrence of an identifier in
\* a kept category, in document order of submissions, nucleotideAlignment
\* before siloReads within a submission, and each key is the prefix
\* followed by the identifier, nothing inserted.
C10_Targets ==
    Collected =>
        LET cats == KeptCategories(options.file_type)
            prefix == positional[3]
        IN /\ Len(files_to_delete) = TargetCount(file_ids, options.file_type)
           /\ \A i \in 1..Len(file_ids) : \A c \in 1..Len(cats) :
                 \A j \in 1..Len(IdsOf(file_ids, i, cats[c])) :
                    files_to_delete[TargetsBefore(file_ids, i, c,
                                                  options.file_type) + j]
                      = << file_ids[i].sid, cats[c],
                           prefix \o IdsOf(file_ids, i, cats[c])[j] >>

\* Targets of both categories and of two submissions under the empty
\* prefix.
C10_Witness ==
    /\ Collected
    /\ Len(file_ids) = 2
    /\ Len(files_to_delete) >= 4
    /\ positional[3] = ""
    /\ \E k \in 1..Len(files_to_delete) : files_to_delete[k][2] = "siloReads"
    /\ \E k \in 1..Len(files_to_delete) :
          files_to_delete[k][2] = "nucleotideAlignment"

-----------------------------------------------------------------------------
(***************************************************************************)
(* Properties of the Prefix Deleter (checked under SpecPrefix)             *)
(***************************************************************************)

\* The keys of the store that start with the prefix.
Matching == { k \in store0 : StartsWith(k, p_prefix) }

Called == { p_calls[i] : i \in 1..Len(p_calls) }

\* C5: when no store call fails, a delete is issued for exactly the keys
\* that start with the prefix, each once, over all pages; every other key
\* stays in the store; the count reported is the number of keys deleted.
C5_PrefixSweep ==
    p_pc = "done" =>
        /\ Called = Matching
        /\ Len(p_calls) = Cardinality(Matching)
        /\ store = store0 \ Matching
        /\ p_printed = <<Cardinality(store0 \ store)>>

\* A sweep over more than one page that left other keys in the store.
C5_Witness ==
    /\ p_pc = "done"
    /\ Len(p_calls) >= 3
    /\ store # {}

\* C6: a rejected delete does not halt the batch: the delete calls for all
\* remaining enumerated keys are still issued and the final count is
\* printed.
C6_RejectionDoesNotHalt ==
    (p_rejected # {} /\ p_pc \in {"done", "crashed"}) =>
        /\ Matching \subseteq Called
        /\ p_printed # NotPrinted

-----------------------------------------------------------------------------
(***************************************************************************)
(* Properties of the Fetcher (checked under SpecFetcher)                   *)
(***************************************************************************)

\* The record carries a non-empty submissionId.
HasId(r) ==
    /\ "metadata" \in DOMAIN r
    /\ "submissionId" \in DOMAIN r.metadata.v
    /\ r.metadata.v.submissionId.v # ""

IdOf(r) == r.metadata.v.submissionId.v

LinesWithId == { i \in 1..Len(records) : HasId(records[i]) }

\* C7 as stated: the output mapping has as many keys as there are input
\* lines with a non-empty submissionId, also when lines share one.
C7_KeyPerLine ==
    f_pc = "returned" => Cardinality(DOMAIN result) = Cardinality(LinesWithId)

\* C7 as amended: a record without a submissionId is absent from the output
\* mapping, whose keys are the distinct non-empty submissionIds of the
\* input lines: as many keys as such lines when no two lines share one.
C7_KeyPerId ==
    f_pc = "returned" =>
        /\ DOMAIN result = { IdOf(records[i]) : i \in LinesWithId }
        /\ (\A i, j \in LinesWithId : IdOf(records[i]) = IdOf(records[j]) => i = j)
              => Cardinality(DOMAIN result) = Cardinality(LinesWithId)

\* A record without submissionId was skipped and another one kept.
C7_Witness ==
    /\ f_pc = "returned"
    /\ LinesWithId # {}
    /\ \E i \in 1..Len(records) : i \notin LinesWithId
    /\ Cardinality(DOMAIN result) = 1

IsArrayOfObjects(x) ==
    x.t = "list" /\ \A j \in 1..Len(x.v) : x.v[j].t = "dict"

\* The field is absent, empty, no JSON text, or the text of something other
\* than an array of objects.
Malformed(r, tag) ==
    \/ tag \notin DOMAIN r.metadata.v
    \/ LET x == r.metadata.v[tag]
       IN \/ x.t # "str"
          \/ x.v = ""
          \/ ~IsArrayOfObjects(JsonLoads(x.v))

\* C8: extraction raises no error, and a malformed or absent file field of
\* a record with a submissionId gives the list [] for that category.
C8_FailSoft ==
    /\ f_error = "none"
    /\ \A tag \in Tags :
          (f_i >= 1 /\ HasId(records[f_i]) /\ Malformed(records[f_i], tag))
             => result[IdOf(records[f_i])][tag] = <<>>

=============================================================================
